---- MODULE Spec2Model ----
(***************************************************************************)
(* Model of scoring.py: position-specific scoring matrices for DNA motifs. *)
(*                                                                         *)
(* Every function of the module is pure; the state machine below is a      *)
(* caller that holds the arguments and the results of the calls it makes.  *)
(* A Python exception is modelled as a result [ok |-> FALSE, err |-> kind] *)
(* and leaves the result variable unset.                                   *)
(*                                                                         *)
(* Numbers.  Python floats are modelled by exact rationals n/d (d > 0, in  *)
(* lowest terms); rounding of IEEE doubles is not modelled.  The value     *)
(* -log(n/d) is modelled by the record [n, d, log |-> TRUE]; the sum of    *)
(* two such values is -log of the product of their arguments.              *)
(***************************************************************************)
EXTENDS Integers, Sequences, FiniteSets, TLC

VARIABLES pc, op, error, instances, count_matrix, frequency_matrix,
          low_frequency, pseudo_matrix, log_matrix, scoring_matrix, string,
          score, score_dict, total

vars == <<pc, op, error, instances, count_matrix, frequency_matrix,
          low_frequency, pseudo_matrix, log_matrix, scoring_matrix, string,
          score, score_dict, total>>

-----------------------------------------------------------------------------
(* Bounds of the model *)

\* longest motif of an instance list or of a count matrix
MaxLen == 3
\* most instances of a list whose instances are enumerated in every order
MaxInstances == 3
\* most characters of such a list (instances times motif length)
MaxChars == 6
\* most instances of a list of one-letter motifs grouped by base
MaxGrouped == 10
\* largest sum of the column totals of a count matrix given directly
MaxCountSum == 8
\* longest motif of a matrix given directly to a scorer
MaxScoreLen == 2

-----------------------------------------------------------------------------
(* Program constants *)

BASES == <<"A", "T", "C", "G">>

BaseSet == {BASES[k] : k \in 1..Len(BASES)}

\* a character that is no base
Alphabet == BaseSet \cup {"N"}

None == "none"

-----------------------------------------------------------------------------
(* Numbers *)

Abs(x) == IF x < 0 THEN -x ELSE x

RECURSIVE GCD(_, _)
GCD(a, b) == IF b = 0 THEN a ELSE GCD(b, a % b)

Rat(n, d) ==
    LET g == GCD(Abs(n), d)
    IN [n |-> n \div g, d |-> d \div g, log |-> FALSE]

Num(k) == Rat(k, 1)

IsZero(x) == ~x.log /\ x.n = 0

\* -log(x) for a rational x > 0; -log(1) is the number 0
NegLog(x) == IF x.n = x.d THEN Num(0) ELSE [n |-> x.n, d |-> x.d, log |-> TRUE]

RatMul(x, y) == Rat(x.n * y.n, x.d * y.d)

\* x + y.  A sum of a non-zero rational and a logarithm has no
\* representation here and no call of the model forms one.
Add(x, y) ==
    CASE ~x.log /\ ~y.log -> Rat(x.n * y.d + y.n * x.d, x.d * y.d)
      [] x.log /\ y.log -> NegLog(RatMul(x, y))
      [] IsZero(x) -> y
      [] IsZero(y) -> x

Sub(x, y) == Rat(x.n * y.d - y.n * x.d, x.d * y.d)

Mul(x, y) == RatMul(x, y)

\* x / y for rationals, y # 0
Div(x, y) ==
    IF y.n > 0 THEN Rat(x.n * y.d, x.d * y.n) ELSE Rat(-(x.n * y.d), x.d * (-y.n))

Leq(x, y) == x.n * y.d <= y.n * x.d

Less(x, y) == x.n * y.d < y.n * x.d

-----------------------------------------------------------------------------
(* Results of a call *)

Ok(v) == [ok |-> TRUE, val |-> v, err |-> None]

Err(kind) == [ok |-> FALSE, val |-> None, err |-> kind]

MotifLength(matrix) == Len(matrix[BASES[1]])

-----------------------------------------------------------------------------
(* instances_to_count_matrix *)

\* a slip of Increment: the cell is set to 1 instead of being incremented
IncrementAssigns(matrix, base, i) ==
    [matrix EXCEPT ![base] = [@ EXCEPT ![i] = 1]]

\* count_matrix[base][i] += 1
Increment(matrix, base, i) ==
    [matrix EXCEPT ![base] = [@ EXCEPT ![i] = @ + 1]]

\* the inner loop: for i in range(len(instance))
RECURSIVE CountInstance(_, _, _)
CountInstance(matrix, instance, i) ==
    IF i > Len(instance) THEN Ok(matrix)
    ELSE IF instance[i] \notin DOMAIN matrix THEN Err("KeyError")
    ELSE IF i > Len(matrix[instance[i]]) THEN Err("IndexError")
    ELSE CountInstance(Increment(matrix, instance[i], i), instance, i + 1)

\* the outer loop: for instance in instances
RECURSIVE CountInstances(_, _, _)
CountInstances(matrix, insts, k) ==
    IF k > Len(insts) THEN Ok(matrix)
    ELSE LET r == CountInstance(matrix, insts[k], 1)
         IN IF r.ok THEN CountInstances(r.val, insts, k + 1) ELSE r

\* the assert is taken as enabled (the interpreter is not run with -O)
instances_to_count_matrix(insts) ==
    IF Len(insts) = 0 THEN Err("IndexError")
    ELSE IF \E k \in 1..Len(insts) : Len(insts[1]) # Len(insts[k])
         THEN Err("AssertionError")
    ELSE LET motif_length == Len(insts[1])
             empty == [base \in BaseSet |-> [i \in 1..motif_length |-> 0]]
         IN CountInstances(empty, insts, 1)

-----------------------------------------------------------------------------
(* count_to_frequency_matrix *)

RECURSIVE SumCounts(_, _, _)
SumCounts(matrix, i, k) ==
    IF k > Len(BASES) THEN 0 ELSE matrix[BASES[k]][i] + SumCounts(matrix, i, k + 1)

count_to_frequency_matrix(matrix) ==
    IF MotifLength(matrix) = 0 THEN Err("IndexError")
    ELSE LET instance_count == SumCounts(matrix, 1, 1)
         IN IF instance_count = 0 THEN Err("ZeroDivisionError")
            ELSE Ok([base \in DOMAIN matrix |->
                       [i \in 1..Len(matrix[base]) |->
                          Rat(matrix[base][i], instance_count)]])

-----------------------------------------------------------------------------
(* score_sum, score_pssm, score_pssm_log *)

\* a slip of ScoreLoop: a character that is no key of the matrix is skipped
RECURSIVE ScoreLoopSkipsUnknown(_, _, _, _, _)
ScoreLoopSkipsUnknown(str, matrix, i, acc, product) ==
    IF i > Len(str) THEN [ok |-> TRUE, val |-> acc, err |-> "none"]
    ELSE IF str[i] \notin DOMAIN matrix
         THEN ScoreLoopSkipsUnknown(str, matrix, i + 1, acc, product)
    ELSE IF i > Len(matrix[str[i]])
         THEN [ok |-> FALSE, val |-> "none", err |-> "IndexError"]
    ELSE LET cell == matrix[str[i]][i]
         IN ScoreLoopSkipsUnknown(str, matrix, i + 1,
                IF product THEN Mul(acc, cell) ELSE Add(acc, cell), product)

\* for i in range(len(string)): score (+|*)= scoring_matrix[string[i]][i]
RECURSIVE ScoreLoop(_, _, _, _, _)
ScoreLoop(str, matrix, i, acc, product) ==
    IF i > Len(str) THEN Ok(acc)
    ELSE IF str[i] \notin DOMAIN matrix THEN Err("KeyError")
    ELSE IF i > Len(matrix[str[i]]) THEN Err("IndexError")
    ELSE LET cell == matrix[str[i]][i]
         IN ScoreLoop(str, matrix, i + 1,
                      IF product THEN Mul(acc, cell) ELSE Add(acc, cell), product)

score_sum(str, matrix) == ScoreLoop(str, matrix, 1, Num(1), FALSE)

score_pssm(str, matrix) == ScoreLoop(str, matrix, 1, Num(1), TRUE)

score_pssm_log(str, matrix) == ScoreLoop(str, matrix, 1, Num(0), FALSE)

-----------------------------------------------------------------------------
(* add_pseudo_counts *)

DefaultLowFrequency == Rat(1, 10)

ZeroCount(matrix, i) == Cardinality({base \in BaseSet : IsZero(matrix[base][i])})

\* a slip of Diff: the default floor is used whatever floor was given
DiffOfDefaultFloor(matrix, i, low) ==
    Div(Mul(Num(ZeroCount(matrix, i)), Rat(1, 10)),
        Num(Len(BASES) - ZeroCount(matrix, i)))

\* diff of position i; the division needs nonzero_count # 0
Diff(matrix, i, low) ==
    LET zero_count == ZeroCount(matrix, i)
        nonzero_count == Len(BASES) - zero_count
    IN Div(Mul(Num(zero_count), low), Num(nonzero_count))

\* a slip of PseudoCell: a frequency below the floor is raised to the floor
PseudoCellRaisesSmall(matrix, base, i, low) ==
    IF Less(matrix[base][i], low) THEN low
    ELSE Sub(matrix[base][i],
             Div(Mul(Num(ZeroCount(matrix, i)), low),
                 Num(Len(BASES) - ZeroCount(matrix, i))))

PseudoCell(matrix, base, i, low) ==
    IF IsZero(matrix[base][i]) THEN low
    ELSE Sub(matrix[base][i], Diff(matrix, i, low))

add_pseudo_counts(matrix, low) ==
    LET motif_length == MotifLength(matrix)
    IN IF \E i \in 1..motif_length : ZeroCount(matrix, i) = Len(BASES)
       THEN Err("ZeroDivisionError")
       ELSE Ok([base \in BaseSet |->
                  [i \in 1..motif_length |-> PseudoCell(matrix, base, i, low)]])

-----------------------------------------------------------------------------
(* freq_to_log_matrix *)

freq_to_log_matrix(matrix) ==
    IF \E base \in DOMAIN matrix : \E i \in 1..Len(matrix[base]) :
           Leq(matrix[base][i], Num(0))
    THEN Err("ValueError")
    ELSE Ok([base \in DOMAIN matrix |->
               [i \in 1..Len(matrix[base]) |-> NegLog(matrix[base][i])]])

-----------------------------------------------------------------------------
(* get_frequency_matrix, get_scoring_matrix *)

get_frequency_matrix(insts) ==
    LET counted == instances_to_count_matrix(insts)
    IN IF counted.ok THEN count_to_frequency_matrix(counted.val) ELSE counted

get_scoring_matrix(insts) ==
    LET frequency == get_frequency_matrix(insts)
    IN IF ~frequency.ok THEN frequency
       ELSE LET pseudo == add_pseudo_counts(frequency.val, DefaultLowFrequency)
            IN IF pseudo.ok THEN freq_to_log_matrix(pseudo.val) ELSE pseudo

-----------------------------------------------------------------------------
(* get_motifs_score, get_motifs_percentage and the totals *)

EmptyDict == [key \in {} |-> Num(0)]

\* score_dict[motif] = value
DictSet(dict, key, value) ==
    [k \in (DOMAIN dict) \cup {key} |-> IF k = key THEN value ELSE dict[k]]

\* for motif in motifs: score_dict[motif] = scorer(motif, scoring_matrix)
RECURSIVE ScoreMotifs(_, _, _, _, _)
ScoreMotifs(motifs, matrix, k, dict, logscore) ==
    IF k > Len(motifs) THEN Ok(dict)
    ELSE LET r == IF logscore THEN score_pssm_log(motifs[k], matrix)
                  ELSE score_pssm(motifs[k], matrix)
         IN IF r.ok
            THEN ScoreMotifs(motifs, matrix, k + 1, DictSet(dict, motifs[k], r.val),
                             logscore)
            ELSE r

get_motifs_score(motifs) ==
    LET matrix == get_scoring_matrix(motifs)
    IN IF matrix.ok THEN ScoreMotifs(motifs, matrix.val, 1, EmptyDict, TRUE)
       ELSE matrix

get_motifs_percentage(motifs) ==
    LET matrix == get_frequency_matrix(motifs)
    IN IF matrix.ok THEN ScoreMotifs(motifs, matrix.val, 1, EmptyDict, FALSE)
       ELSE matrix

\* the fold of list(score_dict.values())
RECURSIVE FoldValues(_, _, _, _)
FoldValues(dict, keys, acc, product) ==
    IF keys = {} THEN acc
    ELSE LET key == CHOOSE k \in keys : TRUE
         IN FoldValues(dict, keys \ {key},
                       IF product THEN Mul(acc, dict[key]) ELSE Add(acc, dict[key]),
                       product)

get_total_motifs_percentage(motifs) ==
    LET dict == get_motifs_percentage(motifs)
    IN IF dict.ok THEN Ok(FoldValues(dict.val, DOMAIN dict.val, Num(1), TRUE))
       ELSE dict

\* a slip of get_total_motifs_score: one score for every occurrence
RECURSIVE SumOccurrences(_, _, _)
SumOccurrences(dict, motifs, k) ==
    IF k > Len(motifs) THEN Num(0)
    ELSE Add(dict[motifs[k]], SumOccurrences(dict, motifs, k + 1))

TotalOfOccurrences(motifs) ==
    LET dict == get_motifs_score(motifs)
    IN IF dict.ok THEN [ok |-> TRUE, val |-> SumOccurrences(dict.val, motifs, 1),
                        err |-> "none"]
       ELSE dict

get_total_motifs_score(motifs) ==
    LET dict == get_motifs_score(motifs)
    IN IF dict.ok THEN Ok(FoldValues(dict.val, DOMAIN dict.val, Num(0), FALSE))
       ELSE dict

-----------------------------------------------------------------------------
(* The arguments a caller may pass *)

StringsUpTo(chars, len) == UNION {[1..l -> chars] : l \in 0..len}

\* instance lists in every order, of any characters, of equal or unequal
\* lengths, the empty list included
InstanceLists ==
    UNION {[1..q[1] -> StringsUpTo(Alphabet, q[2])] :
             q \in {r \in (0..MaxInstances) \X (0..MaxLen) : r[1] * r[2] <= MaxChars}}

Repeat(motif, n) == [k \in 1..n |-> motif]

\* lists of one-letter motifs: a times "A", then t times "T", c times "C"
\* and g times "G"
GroupedLists ==
    {Repeat(<<"A">>, q[1]) \o Repeat(<<"T">>, q[2]) \o
     Repeat(<<"C">>, q[3]) \o Repeat(<<"G">>, q[4]) :
       q \in {r \in [1..4 -> 0..MaxGrouped] :
                r[1] + r[2] + r[3] + r[4] \in 1..MaxGrouped}}

\* the columns of counts whose total is n
Columns(n) ==
    {c \in [BaseSet -> 0..n] : c["A"] + c["T"] + c["C"] + c["G"] = n}

MatrixOfColumns(cols) ==
    [base \in BaseSet |-> [i \in 1..Len(cols) |-> cols[i][base]]]

\* count matrices in which every position counts n instances or none
CountMatrices ==
    UNION {{MatrixOfColumns(cols) :
              cols \in [1..q[2] -> Columns(q[1]) \cup Columns(0)]} :
             q \in {r \in (0..MaxCountSum) \X (0..MaxLen) : r[1] * r[2] <= MaxCountSum}}

Floors == {Rat(1, 20), DefaultLowFrequency, Rat(1, 4)}

FrequencyColumn(a, t, c, g) ==
    [base \in BaseSet |->
       CASE base = "A" -> a [] base = "T" -> t [] base = "C" -> c [] base = "G" -> g]

\* the two positions of the matrix of the doctests, and a uniform position
ScoreColumns ==
    {FrequencyColumn(Num(1), Num(0), Num(0), Num(0)),
     FrequencyColumn(Num(0), Rat(1, 2), Rat(1, 2), Num(0)),
     FrequencyColumn(Rat(1, 4), Rat(1, 4), Rat(1, 4), Rat(1, 4))}

ScoreMatrices ==
    UNION {{MatrixOfColumns(cols) : cols \in [1..l -> ScoreColumns]} :
             l \in 0..MaxScoreLen}

ScoreStrings == StringsUpTo(Alphabet, MaxScoreLen + 1)

-----------------------------------------------------------------------------
(* The caller *)

Unset ==
    /\ op = None
    /\ error = None
    /\ frequency_matrix = None
    /\ pseudo_matrix = None
    /\ log_matrix = None
    /\ string = None
    /\ score = None
    /\ score_dict = None
    /\ total = None

\* a caller holding motif instances
InitInstances ==
    /\ pc = "instances"
    /\ instances \in InstanceLists \cup GroupedLists
    /\ count_matrix = None
    /\ low_frequency = DefaultLowFrequency
    /\ scoring_matrix = None
    /\ Unset

\* a caller holding a count matrix and a floor for the pseudo counts
InitCount ==
    /\ pc = "count"
    /\ instances = None
    /\ count_matrix \in CountMatrices
    /\ low_frequency \in Floors
    /\ scoring_matrix = None
    /\ Unset

\* a caller holding a frequency matrix to score strings with
InitScoring ==
    /\ pc = "scoring"
    /\ instances = None
    /\ count_matrix = None
    /\ low_frequency = DefaultLowFrequency
    /\ scoring_matrix \in ScoreMatrices
    /\ Unset

Init == InitInstances \/ InitCount \/ InitScoring

\* the call `name` returned r: on success the caller goes on to `next`
Return(name, r, next) ==
    /\ op' = name
    /\ error' = r.err
    /\ pc' = IF r.ok THEN next ELSE "failed"

InstancesToCountMatrix ==
    /\ pc = "instances"
    /\ LET r == instances_to_count_matrix(instances)
       IN /\ count_matrix' = r.val
          /\ Return("instances_to_count_matrix", r, "count")
    /\ UNCHANGED <<instances, frequency_matrix, low_frequency, pseudo_matrix,
                   log_matrix, scoring_matrix, string, score, score_dict, total>>

CountToFrequencyMatrix ==
    /\ pc = "count"
    /\ LET r == count_to_frequency_matrix(count_matrix)
       IN /\ frequency_matrix' = r.val
          /\ Return("count_to_frequency_matrix", r, "frequency")
    /\ UNCHANGED <<instances, count_matrix, low_frequency, pseudo_matrix,
                   log_matrix, scoring_matrix, string, score, score_dict, total>>

AddPseudoCounts ==
    /\ pc = "frequency"
    /\ LET r == add_pseudo_counts(frequency_matrix, low_frequency)
       IN /\ pseudo_matrix' = r.val
          /\ Return("add_pseudo_counts", r, "pseudo")
    /\ UNCHANGED <<instances, count_matrix, frequency_matrix, low_frequency,
                   log_matrix, scoring_matrix, string, score, score_dict, total>>

FreqToLogMatrix ==
    /\ pc = "pseudo"
    /\ LET r == freq_to_log_matrix(pseudo_matrix)
       IN /\ log_matrix' = r.val
          /\ Return("freq_to_log_matrix", r, "log")
    /\ UNCHANGED <<instances, count_matrix, frequency_matrix, low_frequency,
                   pseudo_matrix, scoring_matrix, string, score, score_dict, total>>

\* one of the three scorers, on a string of any length and characters
Score(name, r, str) ==
    /\ string' = str
    /\ score' = r.val
    /\ Return(name, r, "done")
    /\ UNCHANGED <<instances, count_matrix, frequency_matrix, low_frequency,
                   pseudo_matrix, log_matrix, scoring_matrix, score_dict, total>>

ScoreSum ==
    /\ pc = "scoring"
    /\ \E str \in ScoreStrings :
         Score("score_sum", score_sum(str, scoring_matrix), str)

ScorePssm ==
    /\ pc = "scoring"
    /\ \E str \in ScoreStrings :
         Score("score_pssm", score_pssm(str, scoring_matrix), str)

ScorePssmLog ==
    /\ pc = "scoring"
    /\ \E str \in ScoreStrings :
         Score("score_pssm_log", score_pssm_log(str, scoring_matrix), str)

GetFrequencyMatrix ==
    /\ pc = "instances"
    /\ LET r == get_frequency_matrix(instances)
       IN /\ frequency_matrix' = r.val
          /\ Return("get_frequency_matrix", r, "done")
    /\ UNCHANGED <<instances, count_matrix, low_frequency, pseudo_matrix,
                   log_matrix, scoring_matrix, string, score, score_dict, total>>

GetScoringMatrix ==
    /\ pc = "instances"
    /\ LET r == get_scoring_matrix(instances)
       IN /\ log_matrix' = r.val
          /\ Return("get_scoring_matrix", r, "done")
    /\ UNCHANGED <<instances, count_matrix, frequency_matrix, low_frequency,
                   pseudo_matrix, scoring_matrix, string, score, score_dict, total>>

\* one of the two per-motif reporters
Report(name, r) ==
    /\ score_dict' = r.val
    /\ Return(name, r, "done")
    /\ UNCHANGED <<instances, count_matrix, frequency_matrix, low_frequency,
                   pseudo_matrix, log_matrix, scoring_matrix, string, score, total>>

GetMotifsScore ==
    /\ pc = "instances"
    /\ Report("get_motifs_score", get_motifs_score(instances))

GetMotifsPercentage ==
    /\ pc = "instances"
    /\ Report("get_motifs_percentage", get_motifs_percentage(instances))

\* one of the two totals
Total(name, r) ==
    /\ total' = r.val
    /\ Return(name, r, "done")
    /\ UNCHANGED <<instances, count_matrix, frequency_matrix, low_frequency,
                   pseudo_matrix, log_matrix, scoring_matrix, string, score,
                   score_dict>>

GetTotalMotifsPercentage ==
    /\ pc = "instances"
    /\ Total("get_total_motifs_percentage", get_total_motifs_percentage(instances))

GetTotalMotifsScore ==
    /\ pc = "instances"
    /\ Total("get_total_motifs_score", get_total_motifs_score(instances))

Next ==
    \/ InstancesToCountMatrix
    \/ CountToFrequencyMatrix
    \/ AddPseudoCounts
    \/ FreqToLogMatrix
    \/ ScoreSum
    \/ ScorePssm
    \/ ScorePssmLog
    \/ GetFrequencyMatrix
    \/ GetScoringMatrix
    \/ GetMotifsScore
    \/ GetMotifsPercentage
    \/ GetTotalMotifsPercentage
    \/ GetTotalMotifsScore

Spec == Init /\ [][Next]_vars

-----------------------------------------------------------------------------
(* Properties *)

\* a non-empty list of instances of one length over the four bases
ValidInstances(insts) ==
    /\ Len(insts) >= 1
    /\ \A k \in 1..Len(insts) : Len(insts[k]) = Len(insts[1])
    /\ \A k \in 1..Len(insts) : \A i \in 1..Len(insts[k]) : insts[k][i] \in BaseSet

\* the number of instances that have `base` at position i
Occurrences(insts, base, i) ==
    Cardinality({k \in 1..Len(insts) : insts[k][i] = base})

Returned(name) == op = name /\ pc # "failed"

Raised(name) == op = name /\ pc = "failed" /\ error # None

\* C3: for every non-empty list of N instances of one length L over the
\* four bases, instances_to_count_matrix returns a matrix with exactly the
\* four base rows, each of length L, whose entry [base][pos] is the number
\* of instances with that base at pos, so that the four counts of every
\* position sum to N; ["ACC", "ATG"] gives A:[2,0,0], T:[0,1,0], C:[0,1,1],
\* G:[0,0,1].
C3_CountMatrix ==
    (op = "instances_to_count_matrix" /\ ValidInstances(instances)) =>
        /\ pc = "count"
        /\ DOMAIN count_matrix = BaseSet
        /\ \A base \in BaseSet :
             /\ Len(count_matrix[base]) = Len(instances[1])
             /\ \A i \in 1..Len(instances[1]) :
                  count_matrix[base][i] = Occurrences(instances, base, i)
        /\ \A i \in 1..Len(instances[1]) :
             count_matrix["A"][i] + count_matrix["T"][i] + count_matrix["C"][i]
               + count_matrix["G"][i] = Len(instances)
        /\ instances = <<<<"A", "C", "C">>, <<"A", "T", "G">>>> =>
             count_matrix = [A |-> <<2, 0, 0>>, T |-> <<0, 1, 0>>,
                             C |-> <<0, 1, 1>>, G |-> <<0, 0, 1>>]

C3_Witness ==
    /\ Returned("instances_to_count_matrix")
    /\ instances = <<<<"A", "C", "C">>, <<"A", "T", "G">>>>
    /\ count_matrix["A"] = <<2, 0, 0>>

Scorers == {"score_sum", "score_pssm", "score_pssm_log"}

HasUnknownBase(str) == \E i \in 1..Len(str) : str[i] \notin BaseSet

\* C5: a character outside {A,T,C,G} at any position of any input string
\* makes the operation fail with no result: instances_to_count_matrix
\* returns no count matrix when some instance contains such a character,
\* and each of the three scorers returns no score when the scored string
\* contains a character that is not a key of the matrix.
C5_UnknownBaseFails ==
    /\ (op = "instances_to_count_matrix"
          /\ \E k \in 1..Len(instances) : HasUnknownBase(instances[k])) =>
         /\ Raised("instances_to_count_matrix")
         /\ count_matrix = None
    /\ (op \in Scorers
          /\ \E i \in 1..Len(string) : string[i] \notin DOMAIN scoring_matrix) =>
         /\ pc = "failed"
         /\ error \in {"KeyError", "IndexError"}
         /\ score = None

C5_Witness ==
    /\ Raised("score_pssm")
    /\ MotifLength(scoring_matrix) = 2
    /\ string = <<"A", "N">>
    /\ error = "KeyError"
    /\ score = None

-----------------------------------------------------------------------------
(* What the reporters are expected to return, stated from the instances *)

Distinct(insts) == {insts[k] : k \in 1..Len(insts)}

\* the share of the instances that have `base` at position i
Share(insts, base, i) == Rat(Occurrences(insts, base, i), Len(insts))

\* the bases no instance has at position i
Absent(insts, i) == {base \in BaseSet : Occurrences(insts, base, i) = 0}

\* the share of a base that occurs at position i, after a tenth was given
\* to every absent base at the equal expense of the bases that occur
Smoothed(insts, base, i) ==
    Sub(Share(insts, base, i),
        Rat(Cardinality(Absent(insts, i)),
            10 * (Cardinality(BaseSet) - Cardinality(Absent(insts, i)))))

\* the product of the shares of the motif's own bases, from position i on
RECURSIVE Likelihood(_, _, _, _)
Likelihood(insts, motif, i, smoothed) ==
    IF i > Len(motif) THEN Num(1)
    ELSE RatMul(IF smoothed THEN Smoothed(insts, motif[i], i)
                ELSE Share(insts, motif[i], i),
                Likelihood(insts, motif, i + 1, smoothed))

\* the product of the likelihoods of a set of motifs, each taken once
RECURSIVE LikelihoodOfAll(_, _, _)
LikelihoodOfAll(insts, motifs, smoothed) ==
    IF motifs = {} THEN Num(1)
    ELSE LET motif == CHOOSE m \in motifs : TRUE
         IN RatMul(Likelihood(insts, motif, 1, smoothed),
                   LikelihoodOfAll(insts, motifs \ {motif}, smoothed))

\* C10: when the motif collection contains duplicate strings, the per-motif
\* mapping of get_motifs_score and get_motifs_percentage has exactly one
\* entry per distinct string, and the total (a sum for
\* get_total_motifs_score, a product for get_total_motifs_percentage)
\* includes the score of each distinct string exactly once, while every
\* occurrence of a duplicate is counted in the matrix the scores are taken
\* from.
C10_DuplicatesCollapse ==
    /\ Returned("get_motifs_percentage") =>
         /\ DOMAIN score_dict = Distinct(instances)
         /\ \A motif \in Distinct(instances) :
              score_dict[motif] = Likelihood(instances, motif, 1, FALSE)
    /\ Returned("get_motifs_score") =>
         /\ DOMAIN score_dict = Distinct(instances)
         /\ \A motif \in Distinct(instances) :
              score_dict[motif] = NegLog(Likelihood(instances, motif, 1, TRUE))
    /\ Returned("get_total_motifs_percentage") =>
         total = LikelihoodOfAll(instances, Distinct(instances), FALSE)
    /\ Returned("get_total_motifs_score") =>
         total = NegLog(LikelihoodOfAll(instances, Distinct(instances), TRUE))

C10_Witness ==
    /\ Returned("get_total_motifs_score")
    /\ instances = <<<<"A", "C">>, <<"A", "C">>, <<"A", "T">>>>
    /\ total = NegLog(Rat(5831, 90000))

-----------------------------------------------------------------------------
(* Pseudo counts *)

ColumnSum(matrix, i) ==
    Add(Add(matrix["A"][i], matrix["T"][i]), Add(matrix["C"][i], matrix["G"][i]))

HasZeroCell(matrix) ==
    \E base \in BaseSet : \E i \in 1..MotifLength(matrix) : IsZero(matrix[base][i])

\* C2: add_pseudo_counts keeps the total of every position: for every
\* frequency matrix, every floor value and every position whose four
\* entries sum to 1 with at least one of them non-zero, the four entries of
\* the returned matrix at that position sum to 1.
C2_PositionTotalKept ==
    Returned("add_pseudo_counts") =>
        \A i \in 1..MotifLength(frequency_matrix) :
            (ColumnSum(frequency_matrix, i) = Num(1)) =>
                ColumnSum(pseudo_matrix, i) = Num(1)

C2_Witness ==
    /\ Returned("add_pseudo_counts")
    /\ low_frequency = Rat(1, 4)
    /\ MotifLength(frequency_matrix) = 2
    /\ ZeroCount(frequency_matrix, 1) = 1
    /\ ZeroCount(frequency_matrix, 2) = 2
    /\ ColumnSum(pseudo_matrix, 1) = Num(1)

\* C8: add_pseudo_counts is the identity on a matrix without zero cells:
\* for every such frequency matrix and every floor value the returned
\* matrix equals the given one cell for cell, and the given matrix is left
\* as it was (the frequencies of the count matrix it was made from).
C8_IdentityWithoutZeros ==
    (op = "add_pseudo_counts" /\ ~HasZeroCell(frequency_matrix)) =>
        /\ pc = "pseudo"
        /\ pseudo_matrix = frequency_matrix
        /\ \A base \in BaseSet : \A i \in 1..MotifLength(count_matrix) :
             frequency_matrix[base][i] =
               Rat(count_matrix[base][i],
                   count_matrix["A"][1] + count_matrix["T"][1]
                     + count_matrix["C"][1] + count_matrix["G"][1])

C8_Witness ==
    /\ Returned("add_pseudo_counts")
    /\ MotifLength(frequency_matrix) = 2
    /\ ~HasZeroCell(frequency_matrix)
    /\ low_frequency # DefaultLowFrequency
    /\ pseudo_matrix = frequency_matrix

\* C1: add_pseudo_counts with the default floor 0.1 never leaves a cell
\* exactly 0: for every frequency matrix in which the entries of every
\* position lie in [0,1] and sum to 1, every cell of the returned matrix
\* differs from 0, the cells that diff was subtracted from included.
C1_NoZeroCell ==
    (/\ op = "add_pseudo_counts"
     /\ low_frequency = DefaultLowFrequency
     /\ \A i \in 1..MotifLength(frequency_matrix) :
          /\ ColumnSum(frequency_matrix, i) = Num(1)
          /\ \A base \in BaseSet : Leq(Num(0), frequency_matrix[base][i])) =>
        /\ pc = "pseudo"
        /\ ~HasZeroCell(pseudo_matrix)

\* C9: for every non-empty collection of motifs of one length over the four
\* bases, of any size, get_scoring_matrix, get_motifs_score and
\* get_total_motifs_score complete with a result instead of a log-domain
\* error (stated for motifs of at least one letter).
C9_ScoringCompletes ==
    (/\ op \in {"get_scoring_matrix", "get_motifs_score", "get_total_motifs_score"}
     /\ ValidInstances(instances)
     /\ Len(instances[1]) >= 1) =>
        /\ pc = "done"
        /\ error = None

\* C4: each of the three scorers fails and returns no score whenever the
\* length of the string differs from the motif length of the matrix, be the
\* string longer or shorter than the rows of the matrix.
C4_LengthMismatchFails ==
    (op \in Scorers /\ Len(string) # MotifLength(scoring_matrix)) =>
        /\ pc = "failed"
        /\ score = None

ColumnTotal(matrix, i) ==
    matrix["A"][i] + matrix["T"][i] + matrix["C"][i] + matrix["G"][i]

\* C6: count_to_frequency_matrix fails, returning no frequency matrix,
\* whenever the total count of any position of the count matrix is 0, not
\* only when the total of the first position is 0.
C6_ZeroTotalFails ==
    (/\ op = "count_to_frequency_matrix"
     /\ \E i \in 1..MotifLength(count_matrix) : ColumnTotal(count_matrix, i) = 0) =>
        /\ pc = "failed"
        /\ frequency_matrix = None

DoctestMatrix ==
    [A |-> <<Num(1), Num(0)>>, T |-> <<Num(0), Rat(1, 2)>>,
     C |-> <<Num(0), Rat(1, 2)>>, G |-> <<Num(0), Num(0)>>]

\* C7: for every frequency matrix with cells in [0,1] and every string of
\* the matching length L, score_sum returns a rating between 0 and L;
\* scoring "AT" against A:[1.0,0.0], T:[0.0,0.5], C:[0.0,0.5], G:[0.0,0.0]
\* yields 1.5 (stated for strings of at least one letter).
C7_SumScoreRange ==
    (/\ op = "score_sum"
     /\ Len(string) = MotifLength(scoring_matrix)
     /\ Len(string) >= 1
     /\ ~HasUnknownBase(string)) =>
        /\ pc = "done"
        /\ Leq(Num(0), score)
        /\ Leq(score, Num(Len(string)))
        /\ (string = <<"A", "T">> /\ scoring_matrix = DoctestMatrix) =>
             score = Rat(3, 2)

====
